---- MODULE Spec2Model ----
(***************************************************************************)
(* A model of helix-core's editing primitives:                             *)
(*   - Change / ChangeSetBuilder / ChangeSet   (src/helix-core/src/change.rs) *)
(*   - MarkedRanges                     (src/helix-core/src/marked_range.rs) *)
(*   - TextRange      (src/helix-core/src/text_range.rs, text_size/range.rs) *)
(*                                                                         *)
(* Text is a sequence of characters.  A character is <<src, k, w>>: src is *)
(* 0 for a character of the original buffer and the push number of the     *)
(* change for a character of an insert text, k is its position in that     *)
(* text and w is its UTF-8 width in bytes.  The rope is indexed by         *)
(* character (ropey's remove/insert take char indices); the length of an   *)
(* insert text (Tendril, a string) is its number of bytes.                 *)
(***************************************************************************)
EXTENDS Integers, Sequences, FiniteSets, TLC

VARIABLES
    text,       \* the Rope the changes are applied to
    before,     \* the buffer as it was before anything was applied
    changes,    \* ChangeSetBuilder.changes, then ChangeSet.changes
    pushed,     \* the changes in the order they were pushed
    status,     \* "building", "built", "applied", "build_panicked", "apply_panicked"
    via,        \* the terminal operation that consumed the builder: "build",
                \* "build_unstable" or "build_unchecked"
    change,     \* the single change that is inverted
    inverse,    \* what Change::invert returned for it
    inv_pc,     \* "start", "inverted", "applied", "undone", or "<step>_panicked";
                \* "direct_applied", "direct_panicked" for a change applied alone
    slotmap,    \* MarkedRanges.slotmap: the slots of the arena
    sorted,     \* MarkedRanges.sorted: the cached ordering of the ids
    should_sort,    \* MarkedRanges.should_sort
    should_reset,   \* MarkedRanges.should_reset
    mr_last,    \* the last call on the tracker or its arena, with what it returned
    mr_live,    \* the (id, range) pairs inserted and not removed since,
                \* with the range each id has now
    mr_removed, \* the ids for which remove has returned a range
    tr,         \* a TextRange value held by a caller
    tr_pc,      \* "none": no value yet, "some": tr is a value, "panicked"
    tr_call,    \* the last TextRange operation called, with its arguments
    ra, rb, rc, \* the ranges a pure TextRange function is called with
    roff,       \* the usize offset it is called with
    fn_out      \* the function called, with what it returned

changeVars == <<text, before, changes, pushed, status, via>>

invertVars == <<change, inverse, inv_pc>>

trackerVars ==
    <<slotmap, sorted, should_sort, should_reset, mr_last, mr_live, mr_removed>>

apiVars == <<tr, tr_pc, tr_call>>

fnVars == <<ra, rb, rc, roff, fn_out>>

vars == <<changeVars, invertVars, trackerVars, apiVars, fnVars>>

\* ---------------------------------------------------------------- bounds

\* Longest buffer, and largest offset a delete span names.
MaxLen == 2
\* Most changes pushed to one builder.
MaxChanges == 2
\* Most calls of insert on one tracker.
MaxInserts == 3
\* u32::MAX, the largest offset a TextRange holds, scaled down to the model.
U32_MAX == 3

\* ------------------------------------------------------------------ text

\* The byte widths of the characters of the insert texts a change may carry:
\* an empty text, one ASCII character, a two-byte character followed by an
\* ASCII one.
InsertShapes == {<<>>, <<1>>, <<2, 1>>}

\* The k-th character of the original buffer; every second one is two bytes wide.
DocChar(k) == <<0, k, IF k % 2 = 0 THEN 2 ELSE 1>>

Doc(n) == [k \in 1..n |-> DocChar(k)]

\* The insert text of the change pushed as number i, with the widths of shape.
InsertText(i, shape) == [k \in 1..Len(shape) |-> <<i, k, shape[k]>>]

RECURSIVE SumWidths(_)
SumWidths(t) == IF t = <<>> THEN 0 ELSE t[1][3] + SumWidths(Tail(t))

\* str::len(): the length of a string in bytes.
str_len(t) == SumWidths(t)

\* Rope::len_chars()
len_chars(t) == Len(t)

\* A remove that cuts the range down to the text instead of panicking.
Rope_remove_clamping(t, s, e) ==
    LET e1 == IF e <= len_chars(t) THEN e ELSE len_chars(t)
        s1 == IF s <= e1 THEN s ELSE e1
    IN  [ok |-> TRUE, text |-> SubSeq(t, 1, s1) \o SubSeq(t, e1 + 1, Len(t))]

\* Rope::remove(char_range): panics unless start <= end <= len_chars.
Rope_remove(t, s, e) ==
    IF s <= e /\ e <= len_chars(t)
    THEN [ok |-> TRUE, text |-> SubSeq(t, 1, s) \o SubSeq(t, e + 1, Len(t))]
    ELSE [ok |-> FALSE, text |-> t]

\* Rope::insert(char_idx, text): panics unless char_idx <= len_chars.
Rope_insert(t, at, ins) ==
    IF at <= len_chars(t)
    THEN [ok |-> TRUE, text |-> SubSeq(t, 1, at) \o ins \o SubSeq(t, at + 1, Len(t))]
    ELSE [ok |-> FALSE, text |-> t]

\* Rope::slice(char_range): panics unless start <= end <= len_chars.
Rope_slice(t, s, e) ==
    IF s <= e /\ e <= len_chars(t)
    THEN [ok |-> TRUE, text |-> SubSeq(t, s + 1, e)]
    ELSE [ok |-> FALSE, text |-> <<>>]

\* ---------------------------------------------------------------- Change

Range(s, e) == [start |-> s, end |-> e]

\* The well-formed delete spans over offsets 0..MaxLen.
Ranges == UNION {{Range(s, e) : e \in s..MaxLen} : s \in 0..MaxLen}

\* ordering that takes ranges that only touch for overlapping ones.
ordering_touching_equal(a, b) ==
    IF a.end < b.start THEN "Less"
    ELSE IF b.end < a.start THEN "Greater"
    ELSE "Equal"

\* TextRange::ordering: overlapping ranges compare Equal.
ordering(a, b) ==
    IF a.end <= b.start THEN "Less"
    ELSE IF b.end <= a.start THEN "Greater"
    ELSE "Equal"

NoChange == [delete |-> Range(0, 0), insert |-> <<>>]

\* Change::apply: remove the delete span, then insert at its start.
Change_apply(c, t) ==
    LET removed == Rope_remove(t, c.delete.start, c.delete.end)
    IN  IF ~removed.ok THEN removed
        ELSE Rope_insert(removed.text, c.delete.start, c.insert)

\* Change::add_offset: both endpoints shifted; the conversion back to the
\* unsigned offset type panics on a negative endpoint, TextRange::new on
\* end < start.  (An endpoint past the largest offset is out of reach of
\* buffers of MaxLen characters.)
add_offset(c, off) ==
    LET s == c.delete.start + off
        e == c.delete.end + off
    IN  IF s < 0 \/ e < 0 \/ e < s
        THEN [ok |-> FALSE, change |-> c]
        ELSE [ok |-> TRUE, change |-> [delete |-> Range(s, e), insert |-> c.insert]]

\* Change::offset: the byte length of the insert minus the length of the span.
offset(c) == str_len(c.insert) - (c.delete.end - c.delete.start)

\* Change::invert: the insert is the deleted text sliced from the original
\* buffer; the delete span is TextRange::new(delete.start, insert.len()),
\* which panics when the byte length of the insert is below delete.start.
invert(c, original_text) ==
    LET sliced == Rope_slice(original_text, c.delete.start, c.delete.end)
        end == str_len(c.insert)
    IN  IF ~sliced.ok \/ end < c.delete.start
        THEN [ok |-> FALSE, change |-> NoChange]
        ELSE [ok |-> TRUE,
              change |-> [delete |-> Range(c.delete.start, end),
                          insert |-> sliced.text]]

\* ------------------------------------------------------------- ChangeSet

\* ChangeSet::apply: the loop over the changes from position i on, with the
\* running offset; stops at the first panic with the rope as it is then.
RECURSIVE ChangeSet_apply_from(_, _, _, _)
ChangeSet_apply_from(cs, i, off, t) ==
    IF i > Len(cs) THEN [ok |-> TRUE, text |-> t]
    ELSE LET change_offset == offset(cs[i])
             moved == add_offset(cs[i], off)
         IN  IF ~moved.ok THEN [ok |-> FALSE, text |-> t]
             ELSE LET applied == Change_apply(moved.change, t)
                  IN  IF ~applied.ok THEN applied
                      ELSE ChangeSet_apply_from(cs, i + 1, off + change_offset,
                                                applied.text)

ChangeSet_apply(cs, t) == ChangeSet_apply_from(cs, 1, 0, t)

\* The sort key of check_disjoint_impl.
key(c) == <<c.delete.start, c.delete.end>>

\* The order of the keys: lexicographic on (start, end).
KeyLess(k1, k2) == k1[1] < k2[1] \/ (k1[1] = k2[1] /\ k1[2] < k2[2])

\* Where a stable sort puts c in the sorted sequence s: after every element
\* whose key is not greater.
RECURSIVE InsertStable(_, _)
InsertStable(s, c) ==
    IF s = <<>> THEN <<c>>
    ELSE IF KeyLess(key(c), key(s[1])) THEN <<c>> \o s
    ELSE <<s[1]>> \o InsertStable(Tail(s), c)

\* slice::sort_by_key(key): a stable sort.
RECURSIVE sort_by_key(_)
sort_by_key(s) ==
    IF s = <<>> THEN <<>>
    ELSE InsertStable(sort_by_key(SubSeq(s, 1, Len(s) - 1)), s[Len(s)])

\* check_disjoint_impl comparing the starts of neighbours, not end with start.
AdjacentDisjoint_by_start(s) ==
    \A i \in 1..(Len(s) - 1) : s[i].delete.start <= s[i + 1].delete.start

\* The test of check_disjoint_impl on the sorted changes: every change ends
\* at or before the start of the next one.
AdjacentDisjoint(s) ==
    \A i \in 1..(Len(s) - 1) : s[i].delete.end <= s[i + 1].delete.start

\* check_disjoint_impl(changes, false): sorts in place, then tests.
check_disjoint(cs) ==
    LET ordered == sort_by_key(cs)
    IN  [ok |-> AdjacentDisjoint(ordered), changes |-> ordered]

\* The ways to arrange n elements.
Arrangements(n) == {p \in [1..n -> 1..n] : \A i, j \in 1..n : p[i] = p[j] => i = j}

\* An unstable sort that leaves the slice as it is.
left_unsorted(s) == {s}

\* slice::sort_unstable_by_key(key): every arrangement of the changes with
\* ascending keys (the order of changes with equal keys is not determined).
changes_sort_unstable_by_key(s) ==
    {t \in {[k \in 1..Len(s) |-> s[p[k]]] : p \in Arrangements(Len(s))} :
        \A k \in 1..(Len(t) - 1) : ~KeyLess(key(t[k + 1]), key(t[k]))}

\* check_disjoint_impl(changes, true): every outcome of the unstable sort,
\* with the result of the test on it.
check_disjoint_unstable(cs) ==
    {[ok |-> AdjacentDisjoint(ordered), changes |-> ordered] :
        ordered \in changes_sort_unstable_by_key(cs)}

\* --------------------------------------------------------------- actions

InvertIdle ==
    /\ change = NoChange
    /\ inverse = NoChange
    /\ inv_pc = "start"

NoRange == Range(0, 0)

\* The record of a call on the tracker: the operation, the id it took or
\* returned, whether it returned Some and which range, whether the id had
\* been removed before the call, the pairs an iter() produced, and the
\* operation of the call before this one.
NoCall == [op |-> "none", id |-> <<0, 0>>, some |-> FALSE, range |-> NoRange,
           stale |-> FALSE, out |-> <<>>, after |-> "none"]

NoOut == [op |-> "none", tag |-> "none", range |-> NoRange,
          aa |-> "none", ab |-> "none", ba |-> "none", bc |-> "none", ac |-> "none"]

NoApiCall == [op |-> "none", x |-> 0, y |-> 0]

RangeIdle ==
    /\ tr = NoRange
    /\ tr_pc = "none"
    /\ tr_call = NoApiCall
    /\ ra = NoRange
    /\ rb = NoRange
    /\ rc = NoRange
    /\ roff = 0
    /\ fn_out = NoOut

\* MarkedRanges::default()
TrackerIdle ==
    /\ slotmap = <<>>
    /\ sorted = <<>>
    /\ should_sort = FALSE
    /\ should_reset = FALSE
    /\ mr_last = NoCall
    /\ mr_live = {}
    /\ mr_removed = {}

ChangeInit ==
    /\ \E n \in 0..MaxLen : text = Doc(n)
    /\ before = text
    /\ changes = <<>>
    /\ pushed = <<>>
    /\ status = "building"
    /\ via = "none"
    /\ InvertIdle
    /\ TrackerIdle
    /\ RangeIdle

\* ChangeSetBuilder::push
push(delete, shape) ==
    /\ status = "building"
    /\ Len(changes) < MaxChanges
    /\ LET c == [delete |-> delete,
                 insert |-> InsertText(Len(pushed) + 1, shape)]
       IN  /\ changes' = Append(changes, c)
           /\ pushed' = Append(pushed, c)
    /\ UNCHANGED <<text, before, status, via, invertVars, trackerVars, apiVars, fnVars>>

Push == \E d \in Ranges, shape \in InsertShapes : push(d, shape)

\* ChangeSetBuilder::build: assert_disjoint, then build_unchecked.
Build ==
    /\ status = "building"
    /\ LET checked == check_disjoint(changes)
       IN  /\ changes' = checked.changes
           /\ status' = IF checked.ok THEN "built" ELSE "build_panicked"
    /\ via' = "build"
    /\ UNCHANGED <<text, before, pushed, invertVars, trackerVars, apiVars, fnVars>>

\* ChangeSetBuilder::build_unstable: assert_disjoint_unstable, then
\* build_unchecked.
BuildUnstable ==
    /\ status = "building"
    /\ \E checked \in check_disjoint_unstable(changes) :
          /\ changes' = checked.changes
          /\ status' = IF checked.ok THEN "built" ELSE "build_panicked"
    /\ via' = "build_unstable"
    /\ UNCHANGED <<text, before, pushed, invertVars, trackerVars, apiVars, fnVars>>

\* ChangeSetBuilder::build_unchecked
BuildUnchecked ==
    /\ status = "building"
    /\ status' = "built"
    /\ via' = "build_unchecked"
    /\ UNCHANGED <<text, before, changes, pushed, invertVars, trackerVars, apiVars, fnVars>>

\* ChangeSet::apply
Apply ==
    /\ status = "built"
    /\ LET r == ChangeSet_apply(changes, text)
       IN  /\ text' = r.text
           /\ status' = IF r.ok THEN "applied" ELSE "apply_panicked"
    /\ UNCHANGED <<before, changes, pushed, via, invertVars, trackerVars, apiVars, fnVars>>

ChangeNext == Push \/ Build \/ BuildUnstable \/ BuildUnchecked \/ Apply

SpecChange == ChangeInit /\ [][ChangeNext]_vars

\* ------------------------------------------ one change and its inverse

InvertInit ==
    /\ \E n \in 0..MaxLen : text = Doc(n)
    /\ before = text
    /\ changes = <<>>
    /\ pushed = <<>>
    /\ status = "building"
    /\ via = "none"
    /\ InvertIdle
    /\ TrackerIdle
    /\ RangeIdle

\* let inv = c.invert(&text), for a change c made by the caller
do_invert(delete, shape) ==
    /\ inv_pc = "start"
    /\ LET c == [delete |-> delete, insert |-> InsertText(1, shape)]
           r == invert(c, text)
       IN  /\ change' = c
           /\ inverse' = r.change
           /\ inv_pc' = IF r.ok THEN "inverted" ELSE "invert_panicked"
    /\ UNCHANGED <<changeVars, trackerVars, apiVars, fnVars>>

Invert == \E d \in Ranges, shape \in InsertShapes : do_invert(d, shape)

\* c.apply(&mut text)
ApplyChange ==
    /\ inv_pc = "inverted"
    /\ LET r == Change_apply(change, text)
       IN  /\ text' = r.text
           /\ inv_pc' = IF r.ok THEN "applied" ELSE "apply_panicked"
    /\ UNCHANGED <<before, changes, pushed, status, via, change, inverse>>
    /\ UNCHANGED <<trackerVars, apiVars, fnVars>>

\* inv.apply(&mut text)
ApplyInverse ==
    /\ inv_pc = "applied"
    /\ LET r == Change_apply(inverse, text)
       IN  /\ text' = r.text
           /\ inv_pc' = IF r.ok THEN "undone" ELSE "undo_panicked"
    /\ UNCHANGED <<before, changes, pushed, status, via, change, inverse>>
    /\ UNCHANGED <<trackerVars, apiVars, fnVars>>

\* c.apply(&mut text), for a change c made by the caller and not inverted
apply_alone(delete, shape) ==
    /\ inv_pc = "start"
    /\ LET c == [delete |-> delete, insert |-> InsertText(1, shape)]
           r == Change_apply(c, text)
       IN  /\ change' = c
           /\ text' = r.text
           /\ inv_pc' = IF r.ok THEN "direct_applied" ELSE "direct_panicked"
    /\ UNCHANGED <<before, changes, pushed, status, via, inverse>>
    /\ UNCHANGED <<trackerVars, apiVars, fnVars>>

ApplyAlone == \E d \in Ranges, shape \in InsertShapes : apply_alone(d, shape)

InvertNext == Invert \/ ApplyChange \/ ApplyInverse \/ ApplyAlone

SpecInvert == InvertInit /\ [][InvertNext]_vars

\* ---------------------------------------------------------- MarkedRanges

\* The ranges given to the tracker: nested, touching, equal and empty ones.
MarkRanges == {Range(0, 1), Range(0, 2), Range(1, 2), Range(1, 1)}

\* An id (a slotmap key) is <<index of the slot, version of the slot when it
\* was filled>>.  A slot holds a value while its version is odd; removing the
\* value and filling the slot again each raise the version by one.
\* An id no insert has returned.
NeverIssued == <<MaxInserts + 1, 1>>

Occupied(sm, i) == sm[i].version % 2 = 1

Vacant(sm) == {i \in 1..Len(sm) : ~Occupied(sm, i)}

\* HopSlotMap::get(id)
SlotMap_get(sm, id) ==
    IF id[1] \in 1..Len(sm) /\ sm[id[1]].version = id[2] /\ Occupied(sm, id[1])
    THEN [some |-> TRUE, value |-> sm[id[1]].value]
    ELSE [some |-> FALSE, value |-> NoRange]

\* An arena that fills a vacant slot again under the version it had before.
SlotMap_insert_same_version(sm, i, value) ==
    IF i \in 1..Len(sm)
    THEN [slots |-> [sm EXCEPT ![i] = [version |-> sm[i].version - 1, value |-> value]],
          id |-> <<i, sm[i].version - 1>>]
    ELSE [slots |-> Append(sm, [version |-> 1, value |-> value]),
          id |-> <<Len(sm) + 1, 1>>]

\* HopSlotMap::insert(value) into slot i: a vacant slot of the free list, or
\* a new slot past the end when no slot is vacant.  Which vacant slot the
\* free list gives is left to the caller of this operator.
SlotMap_insert(sm, i, value) ==
    IF i \in 1..Len(sm)
    THEN [slots |-> [sm EXCEPT ![i] = [version |-> sm[i].version + 1, value |-> value]],
          id |-> <<i, sm[i].version + 1>>]
    ELSE [slots |-> Append(sm, [version |-> 1, value |-> value]),
          id |-> <<Len(sm) + 1, 1>>]

\* HopSlotMap::remove(id): the value, and the slot vacant with its version
\* raised, when the id is the one the slot was filled under.
SlotMap_remove(sm, id) ==
    LET got == SlotMap_get(sm, id)
    IN  IF got.some
        THEN [some |-> TRUE, value |-> got.value,
              slots |-> [sm EXCEPT ![id[1]] =
                            [version |-> sm[id[1]].version + 1, value |-> NoRange]]]
        ELSE [some |-> FALSE, value |-> NoRange, slots |-> sm]

\* HopSlotMap::keys(): the ids of the filled slots, in slot order.
RECURSIVE SlotMap_keys_from(_, _)
SlotMap_keys_from(sm, i) ==
    IF i > Len(sm) THEN <<>>
    ELSE (IF Occupied(sm, i) THEN <<<<i, sm[i].version>>>> ELSE <<>>)
         \o SlotMap_keys_from(sm, i + 1)

SlotMap_keys(sm) == SlotMap_keys_from(sm, 1)

\* The order of TextRange values the sort of invariants() compares by:
\* ascending by start, then by end.
RangeLeq(a, b) == a.start < b.start \/ (a.start = b.start /\ a.end <= b.end)

Elems(s) == {s[k] : k \in 1..Len(s)}

\* sort_unstable_by_key(|id| slotmap.get(*id).unwrap()) on ids that all
\* resolve: every arrangement of the ids in ascending order of their ranges
\* (the order of ids with equal ranges is not determined).
sort_unstable_by_key(s, sm) ==
    {t \in [1..Len(s) -> Elems(s)] :
        /\ \A x \in Elems(s) :
              Cardinality({k \in 1..Len(s) : t[k] = x})
                = Cardinality({k \in 1..Len(s) : s[k] = x})
        /\ \A k \in 1..(Len(s) - 1) :
              RangeLeq(SlotMap_get(sm, t[k]).value, SlotMap_get(sm, t[k + 1]).value)}

\* invariants() that sorts the cached ordering on every call, should_sort
\* set or not.
invariants_always_sorting(sm, cache, reset, sort) ==
    LET rebuilt == IF reset THEN SlotMap_keys(sm) ELSE cache
    IN  IF Len(rebuilt) >= 2 /\ \E x \in Elems(rebuilt) : ~SlotMap_get(sm, x).some
        THEN [ok |-> FALSE, sorted |-> {rebuilt}]
        ELSE [ok |-> TRUE, sorted |-> sort_unstable_by_key(rebuilt, sm)]

\* MarkedRanges::invariants: the cached ordering rebuilt from the keys when
\* should_reset, then sorted when should_sort; the unwrap in the sort key
\* panics on an id that does not resolve.  A sort of two or more ids takes
\* the key of each of them; a sort of fewer takes no key.  Gives every
\* ordering the call may leave in self.sorted.
invariants(sm, cache, reset, sort) ==
    LET rebuilt == IF reset THEN SlotMap_keys(sm) ELSE cache
    IN  IF ~sort THEN [ok |-> TRUE, sorted |-> {rebuilt}]
        ELSE IF Len(rebuilt) >= 2 /\ \E x \in Elems(rebuilt) : ~SlotMap_get(sm, x).some
        THEN [ok |-> FALSE, sorted |-> {rebuilt}]
        ELSE [ok |-> TRUE, sorted |-> sort_unstable_by_key(rebuilt, sm)]

\* The pairs iter() produces from the cached ordering: each id that resolves,
\* with its range.
RECURSIVE Yielded(_, _)
Yielded(s, sm) ==
    IF s = <<>> THEN <<>>
    ELSE (IF SlotMap_get(sm, s[1]).some
          THEN <<<<s[1], SlotMap_get(sm, s[1]).value>>>> ELSE <<>>)
         \o Yielded(Tail(s), sm)

TrackerInit ==
    /\ text = <<>>
    /\ before = <<>>
    /\ changes = <<>>
    /\ pushed = <<>>
    /\ status = "building"
    /\ via = "none"
    /\ InvertIdle
    /\ TrackerIdle
    /\ RangeIdle

TrackerRunning == mr_last.op # "panicked"

\* insert that appends the id and leaves should_sort as it is.
insert_without_should_sort(range, i) ==
    /\ TrackerRunning
    /\ Cardinality(mr_live) + Cardinality(mr_removed) < MaxInserts
    /\ IF Vacant(slotmap) = {}
       THEN i = Len(slotmap) + 1
       ELSE i \in Vacant(slotmap)
    /\ LET r == SlotMap_insert(slotmap, i, range)
       IN  /\ slotmap' = r.slots
           /\ sorted' = Append(sorted, r.id)
           /\ mr_last' = [NoCall EXCEPT !.op = "insert", !.id = r.id,
                                         !.stale = r.id \in mr_removed,
                                         !.after = mr_last.op]
           /\ mr_live' = mr_live \cup {<<r.id, range>>}
    /\ UNCHANGED <<should_sort, should_reset, mr_removed, changeVars, invertVars, apiVars, fnVars>>

\* MarkedRanges::insert(range), the arena filling slot i
insert(range, i) ==
    /\ TrackerRunning
    /\ Cardinality(mr_live) + Cardinality(mr_removed) < MaxInserts
    /\ IF Vacant(slotmap) = {}
       THEN i = Len(slotmap) + 1
       ELSE i \in Vacant(slotmap)
    /\ LET r == SlotMap_insert(slotmap, i, range)
       IN  /\ slotmap' = r.slots
           /\ sorted' = Append(sorted, r.id)
           /\ should_sort' = TRUE
           /\ mr_last' = [NoCall EXCEPT !.op = "insert", !.id = r.id,
                                         !.stale = r.id \in mr_removed,
                                         !.after = mr_last.op]
           /\ mr_live' = mr_live \cup {<<r.id, range>>}
    /\ UNCHANGED <<should_reset, mr_removed, changeVars, invertVars, apiVars, fnVars>>

Insert == \E range \in MarkRanges, i \in 1..MaxInserts : insert(range, i)

\* remove that marks the ordering stale whether or not the id resolved.
remove_always_marking(id) ==
    /\ TrackerRunning
    /\ LET r == SlotMap_remove(slotmap, id)
       IN  /\ slotmap' = r.slots
           /\ should_reset' = TRUE
           /\ should_sort' = TRUE
           /\ mr_last' = [NoCall EXCEPT !.op = "remove", !.id = id,
                                         !.some = r.some, !.range = r.value,
                                         !.stale = id \in mr_removed,
                                         !.after = mr_last.op]
           /\ mr_live' = IF r.some THEN mr_live \ {<<id, r.value>>} ELSE mr_live
           /\ mr_removed' = IF r.some THEN mr_removed \cup {id} ELSE mr_removed
    /\ UNCHANGED <<sorted, changeVars, invertVars, apiVars, fnVars>>

\* remove that asks for a resort only, not for a rebuild.
remove_without_should_reset(id) ==
    /\ TrackerRunning
    /\ LET r == SlotMap_remove(slotmap, id)
       IN  /\ slotmap' = r.slots
           /\ should_reset' = should_reset
           /\ should_sort' = IF r.some THEN TRUE ELSE should_sort
           /\ mr_last' = [NoCall EXCEPT !.op = "remove", !.id = id,
                                         !.some = r.some, !.range = r.value,
                                         !.stale = id \in mr_removed,
                                         !.after = mr_last.op]
           /\ mr_live' = IF r.some THEN mr_live \ {<<id, r.value>>} ELSE mr_live
           /\ mr_removed' = IF r.some THEN mr_removed \cup {id} ELSE mr_removed
    /\ UNCHANGED <<sorted, changeVars, invertVars, apiVars, fnVars>>

\* MarkedRanges::remove(id)
remove(id) ==
    /\ TrackerRunning
    /\ LET r == SlotMap_remove(slotmap, id)
       IN  /\ slotmap' = r.slots
           /\ should_reset' = IF r.some THEN TRUE ELSE should_reset
           /\ should_sort' = IF r.some THEN TRUE ELSE should_sort
           /\ mr_last' = [NoCall EXCEPT !.op = "remove", !.id = id,
                                         !.some = r.some, !.range = r.value,
                                         !.stale = id \in mr_removed,
                                         !.after = mr_last.op]
           /\ mr_live' = IF r.some THEN mr_live \ {<<id, r.value>>} ELSE mr_live
           /\ mr_removed' = IF r.some THEN mr_removed \cup {id} ELSE mr_removed
    /\ UNCHANGED <<sorted, changeVars, invertVars, apiVars, fnVars>>

\* The ids a caller can hold: those insert has returned, live or removed;
\* and one that was never returned.
HeldIds == {p[1] : p \in mr_live} \cup mr_removed \cup {NeverIssued}

Remove == \E id \in HeldIds : remove(id)

\* MarkedRanges::iter(), collected
iter ==
    /\ TrackerRunning
    /\ LET r == invariants(slotmap, sorted, should_reset, should_sort)
       IN  IF r.ok
           THEN /\ sorted' \in r.sorted
                /\ should_reset' = FALSE
                /\ should_sort' = FALSE
                /\ mr_last' = [NoCall EXCEPT !.op = "iter",
                                              !.out = Yielded(sorted', slotmap),
                                              !.after = mr_last.op]
           ELSE /\ sorted' \in r.sorted
                /\ mr_last' = [NoCall EXCEPT !.op = "panicked", !.after = mr_last.op]
                /\ UNCHANGED <<should_reset, should_sort>>
    /\ UNCHANGED <<slotmap, mr_live, mr_removed, changeVars, invertVars, apiVars, fnVars>>

Iter == iter

TrackerNext == Insert \/ Remove \/ Iter

SpecTracker == TrackerInit /\ [][TrackerNext]_vars

\* ------------------------------- MarkedRanges with a second owner of the arena

\* The arena is an Rc<RefCell<HopSlotMap>>: another holder of the Rc calls
\* the HopSlotMap directly, between two calls on the tracker.
SharedInit ==
    /\ text = <<>>
    /\ before = <<>>
    /\ changes = <<>>
    /\ pushed = <<>>
    /\ status = "building"
    /\ via = "none"
    /\ InvertIdle
    /\ TrackerIdle
    /\ RangeIdle

OwnerFrame ==
    UNCHANGED <<sorted, should_sort, should_reset, changeVars, invertVars, apiVars, fnVars>>

\* slotmap.borrow_mut().remove(id) by the other owner
owner_remove(id) ==
    /\ TrackerRunning
    /\ LET r == SlotMap_remove(slotmap, id)
       IN  /\ r.some
           /\ slotmap' = r.slots
           /\ mr_last' = [NoCall EXCEPT !.op = "owner_remove", !.id = id,
                                         !.some = TRUE, !.range = r.value,
                                         !.after = mr_last.op]
           /\ mr_live' = mr_live \ {<<id, r.value>>}
           /\ mr_removed' = mr_removed \cup {id}
    /\ OwnerFrame

OwnerRemove == \E p \in mr_live : owner_remove(p[1])

\* *slotmap.borrow_mut().get_mut(id).unwrap() = range by the other owner: the
\* range of a live entry replaced, as when ranges are remapped after an edit
owner_set(id, range) ==
    /\ TrackerRunning
    /\ SlotMap_get(slotmap, id).some
    /\ SlotMap_get(slotmap, id).value # range
    /\ slotmap' = [slotmap EXCEPT ![id[1]].value = range]
    /\ mr_last' = [NoCall EXCEPT !.op = "owner_set", !.id = id, !.some = TRUE,
                                  !.range = range, !.after = mr_last.op]
    /\ mr_live' = (mr_live \ {<<id, SlotMap_get(slotmap, id).value>>})
                      \cup {<<id, range>>}
    /\ UNCHANGED mr_removed
    /\ OwnerFrame

OwnerSet == \E p \in mr_live, range \in MarkRanges : owner_set(p[1], range)

\* slotmap.borrow_mut().insert(range) by the other owner
owner_insert(range, i) ==
    /\ TrackerRunning
    /\ Cardinality(mr_live) + Cardinality(mr_removed) < MaxInserts
    /\ IF Vacant(slotmap) = {}
       THEN i = Len(slotmap) + 1
       ELSE i \in Vacant(slotmap)
    /\ LET r == SlotMap_insert(slotmap, i, range)
       IN  /\ slotmap' = r.slots
           /\ mr_last' = [NoCall EXCEPT !.op = "owner_insert", !.id = r.id,
                                         !.stale = r.id \in mr_removed,
                                         !.after = mr_last.op]
           /\ mr_live' = mr_live \cup {<<r.id, range>>}
    /\ UNCHANGED mr_removed
    /\ OwnerFrame

OwnerInsert == \E range \in MarkRanges, i \in 1..MaxInserts : owner_insert(range, i)

SharedNext == Insert \/ Remove \/ Iter \/ OwnerRemove \/ OwnerSet \/ OwnerInsert

SpecShared == SharedInit /\ [][SharedNext]_vars

\* ------------------------------------------------------------- TextRange

\* The usize arguments tried: every by that fits u32, and two that do not.
Usizes == 0..(U32_MAX + 2)

\* The well-formed ranges over the u32 offsets.
U32Ranges == UNION {{Range(s, e) : e \in s..U32_MAX} : s \in 0..U32_MAX}

Some(r) == [tag |-> "some", range |-> r]
None == [tag |-> "none", range |-> NoRange]
Panic == [tag |-> "panic", range |-> NoRange]

\* usize -> u32 by try_into().unwrap()
FitsU32(x) == x <= U32_MAX

cmp_max(x, y) == IF x >= y THEN x ELSE y
cmp_min(x, y) == IF x <= y THEN x ELSE y

\* TextRange::new(start, end): both converted to u32 (unwrap), then
\* assert!(start <= end).
TextRange_new(s, e) ==
    IF ~FitsU32(s) \/ ~FitsU32(e) THEN Panic
    ELSE IF ~(s <= e) THEN Panic
    ELSE Some(Range(s, e))

\* TextRange::at(offset, len)
TextRange_at(by, len) == TextRange_new(by, by + len)

\* TextRange::empty(offset)
TextRange_empty(by) == TextRange_new(by, by)

\* TextRange::up_to(end)
TextRange_up_to(end) == TextRange_new(0, end)

\* impl From<ops::Range<T>> for TextRange of text_size/range.rs: the struct
\* built from the two ends as they are.
from_range_text_size(s, e) == Some(Range(s, e))

\* with_start / with_end: through TextRange::new.
with_start(r, s) == TextRange_new(s, r.end)
with_end(r, e) == TextRange_new(r.start, e)

\* set_start / set_end: the field assigned after the conversion to u32.
set_start(r, s) == IF FitsU32(s) THEN Some(Range(s, r.end)) ELSE Panic
set_end(r, e) == IF FitsU32(e) THEN Some(Range(r.start, e)) ELSE Panic

\* intersect that takes ranges that only touch for disjoint ones.
intersect_touching_none(a, b) ==
    LET s == cmp_max(a.start, b.start)
        e == cmp_min(a.end, b.end)
    IN  IF e <= s THEN None ELSE TextRange_new(s, e)

\* TextRange::intersect
intersect(a, b) ==
    LET s == cmp_max(a.start, b.start)
        e == cmp_min(a.end, b.end)
    IN  IF e < s THEN None ELSE TextRange_new(s, e)

\* TextRange::cover
cover(a, b) == TextRange_new(cmp_min(a.start, b.start), cmp_max(a.end, b.end))

\* TextRange::cover_offset
cover_offset(a, by) ==
    LET point == TextRange_empty(by)
    IN  IF point.tag = "panic" THEN Panic ELSE cover(a, point.range)

\* TextRange::checked_add of text_range.rs: offset.try_into().unwrap(), then
\* u32::checked_add on both ends.
checked_add(r, by) ==
    IF ~FitsU32(by) THEN Panic
    ELSE IF r.start + by > U32_MAX \/ r.end + by > U32_MAX THEN None
    ELSE Some(Range(r.start + by, r.end + by))

\* TextRange::checked_sub of text_range.rs
checked_sub(r, by) ==
    IF ~FitsU32(by) THEN Panic
    ELSE IF r.start - by < 0 \/ r.end - by < 0 THEN None
    ELSE Some(Range(r.start - by, r.end - by))

\* u32 arithmetic that wraps around on overflow.
wrapping(x) == (x + U32_MAX + 1) % (U32_MAX + 1)

\* impl Add<usize> for TextRange: u32::try_from(rhs).unwrap(), then start + rhs
\* and end + rhs with the + of u32, which panics on overflow in a build with
\* overflow checks (debug) and wraps around in one without (release).
TextRange_add(r, rhs, overflow_checks) ==
    IF ~FitsU32(rhs) THEN Panic
    ELSE IF r.start + rhs > U32_MAX \/ r.end + rhs > U32_MAX
    THEN IF overflow_checks THEN Panic
         ELSE Some(Range(wrapping(r.start + rhs), wrapping(r.end + rhs)))
    ELSE Some(Range(r.start + rhs, r.end + rhs))

\* impl Sub<usize> for TextRange: the same with the - of u32.
TextRange_sub(r, rhs, overflow_checks) ==
    IF ~FitsU32(rhs) THEN Panic
    ELSE IF r.start - rhs < 0 \/ r.end - rhs < 0
    THEN IF overflow_checks THEN Panic
         ELSE Some(Range(wrapping(r.start - rhs), wrapping(r.end - rhs)))
    ELSE Some(Range(r.start - rhs, r.end - rhs))

\* ------------------------------ a TextRange value through the public API

ApiInit ==
    /\ text = <<>>
    /\ before = <<>>
    /\ changes = <<>>
    /\ pushed = <<>>
    /\ status = "building"
    /\ via = "none"
    /\ InvertIdle
    /\ TrackerIdle
    /\ RangeIdle

\* The caller holds what the call returned: the new value, the old one after
\* a None, nothing after a panic.
Returned(op, x, y, r) ==
    /\ tr_call' = [op |-> op, x |-> x, y |-> y]
    /\ tr_pc' = IF r.tag = "panic" THEN "panicked"
                ELSE IF r.tag = "some" THEN "some" ELSE tr_pc
    /\ tr' = IF r.tag = "some" THEN r.range ELSE tr
    /\ UNCHANGED <<changeVars, invertVars, trackerVars, fnVars>>

\* No call has panicked.
Alive == tr_pc # "panicked"

\* The caller holds a value to call a method on.
Held == tr_pc = "some"

New == \E s, e \in Usizes : Alive /\ Returned("new", s, e, TextRange_new(s, e))

At == \E o, l \in Usizes : Alive /\ Returned("at", o, l, TextRange_at(o, l))

Empty == \E o \in Usizes : Alive /\ Returned("empty", o, 0, TextRange_empty(o))

UpTo == \E e \in Usizes : Alive /\ Returned("up_to", e, 0, TextRange_up_to(e))

\* impl From<(usize, usize)> and From<ops::Range<usize>> of text_range.rs
FromPair == \E s, e \in Usizes : Alive /\ Returned("from_pair", s, e, TextRange_new(s, e))

FromRange == \E s, e \in Usizes : Alive /\ Returned("from_range", s, e, TextRange_new(s, e))

\* impl From<ops::Range<T>> of text_size/range.rs, T: Into<TextSize>
FromRangeTextSize ==
    \E s, e \in 0..U32_MAX :
        Alive /\ Returned("from_range_text_size", s, e, from_range_text_size(s, e))

WithStart == \E s \in Usizes : Held /\ Returned("with_start", s, 0, with_start(tr, s))

WithEnd == \E e \in Usizes : Held /\ Returned("with_end", e, 0, with_end(tr, e))

SetStart == \E s \in Usizes : Held /\ Returned("set_start", s, 0, set_start(tr, s))

SetEnd == \E e \in Usizes : Held /\ Returned("set_end", e, 0, set_end(tr, e))

Cover ==
    \E o \in U32Ranges : Held /\ Returned("cover", o.start, o.end, cover(tr, o))

CoverOffset ==
    \E o \in Usizes : Held /\ Returned("cover_offset", o, 0, cover_offset(tr, o))

Intersect ==
    \E o \in U32Ranges :
        Held /\ Returned("intersect", o.start, o.end, intersect(tr, o))

CheckedAdd ==
    \E o \in Usizes : Held /\ Returned("checked_add", o, 0, checked_add(tr, o))

CheckedSub ==
    \E o \in Usizes : Held /\ Returned("checked_sub", o, 0, checked_sub(tr, o))

ApiNext ==
    \/ New \/ At \/ Empty \/ UpTo \/ FromPair \/ FromRange \/ FromRangeTextSize
    \/ WithStart \/ WithEnd \/ SetStart \/ SetEnd
    \/ Cover \/ CoverOffset \/ Intersect \/ CheckedAdd \/ CheckedSub

SpecRangeApi == ApiInit /\ [][ApiNext]_vars

\* ------------------------------------- the pure functions of a TextRange

FnInit ==
    /\ text = <<>>
    /\ before = <<>>
    /\ changes = <<>>
    /\ pushed = <<>>
    /\ status = "building"
    /\ via = "none"
    /\ InvertIdle
    /\ TrackerIdle
    /\ tr = NoRange
    /\ tr_pc = "none"
    /\ tr_call = NoApiCall
    /\ ra \in U32Ranges
    /\ rb \in U32Ranges
    /\ rc \in U32Ranges
    /\ roff \in Usizes
    /\ fn_out = NoOut

NotCalled == fn_out.op = "none"

FnFrame == UNCHANGED <<changeVars, invertVars, trackerVars, apiVars, ra, rb, rc, roff>>

\* ra.ordering(ra), ra.ordering(rb), rb.ordering(ra), rb.ordering(rc),
\* ra.ordering(rc)
CallOrdering ==
    /\ NotCalled
    /\ fn_out' = [NoOut EXCEPT !.op = "ordering",
                               !.aa = ordering(ra, ra), !.ab = ordering(ra, rb),
                               !.ba = ordering(rb, ra), !.bc = ordering(rb, rc),
                               !.ac = ordering(ra, rc)]
    /\ FnFrame

\* ra.intersect(rb)
CallIntersect ==
    /\ NotCalled
    /\ LET r == intersect(ra, rb)
       IN  fn_out' = [NoOut EXCEPT !.op = "intersect", !.tag = r.tag, !.range = r.range]
    /\ FnFrame

\* ra.checked_add(roff)
CallCheckedAdd ==
    /\ NotCalled
    /\ LET r == checked_add(ra, roff)
       IN  fn_out' = [NoOut EXCEPT !.op = "checked_add", !.tag = r.tag, !.range = r.range]
    /\ FnFrame

\* ra.checked_sub(roff)
CallCheckedSub ==
    /\ NotCalled
    /\ LET r == checked_sub(ra, roff)
       IN  fn_out' = [NoOut EXCEPT !.op = "checked_sub", !.tag = r.tag, !.range = r.range]
    /\ FnFrame

\* ra + roff, in either kind of build
CallAdd ==
    /\ NotCalled
    /\ \E overflow_checks \in BOOLEAN :
          LET r == TextRange_add(ra, roff, overflow_checks)
          IN  fn_out' = [NoOut EXCEPT !.op = "add", !.tag = r.tag, !.range = r.range]
    /\ FnFrame

\* ra - roff, in either kind of build
CallSub ==
    /\ NotCalled
    /\ \E overflow_checks \in BOOLEAN :
          LET r == TextRange_sub(ra, roff, overflow_checks)
          IN  fn_out' = [NoOut EXCEPT !.op = "sub", !.tag = r.tag, !.range = r.range]
    /\ FnFrame

FnNext ==
    \/ CallOrdering \/ CallIntersect \/ CallCheckedAdd \/ CallCheckedSub
    \/ CallAdd \/ CallSub

SpecRangeFn == FnInit /\ [][FnNext]_vars

\* ---------------------------------------------------------------- claims

\* Every delete span of cs lies within the buffer t.
InBounds(cs, t) == \A i \in 1..Len(cs) : cs[i].delete.end <= len_chars(t)

\* The buffer t with the delete span of c replaced by its insert text.
Replaced(t, c) ==
    SubSeq(t, 1, c.delete.start) \o c.insert \o SubSeq(t, c.delete.end + 1, Len(t))

\* The buffer t with the delete span of every change of cs (ascending,
\* disjoint) replaced by its insert text: the spans are replaced from the
\* last to the first, so no span moves before it is replaced.
RECURSIVE Spliced(_, _)
Spliced(t, cs) ==
    IF cs = <<>> THEN t
    ELSE Spliced(Replaced(t, cs[Len(cs)]), SubSeq(cs, 1, Len(cs) - 1))

ApplyReturned == status \in {"applied", "apply_panicked"}

\* C1: a ChangeSet built by build() from disjoint changes within the buffer
\* applies without failing, and the result is the original buffer with each
\* delete span replaced by its insert text.
C1_ApplyIsSplice ==
    (via = "build" /\ ApplyReturned /\ InBounds(pushed, before))
        => (status = "applied" /\ text = Spliced(before, changes))

\* C2: for a change whose delete span lies within the buffer, invert on the
\* buffer as it was, then the change, then the inverse all succeed and give
\* back the original buffer.
C2_InvertUndoes ==
    (inv_pc # "start" /\ change.delete.end <= len_chars(before))
        => /\ inv_pc \notin {"invert_panicked", "apply_panicked", "undo_panicked"}
           /\ inv_pc = "undone" => text = before

Overlap(a, b) == ordering(a, b) = "Equal"

PairwiseDisjoint(cs) ==
    \A i \in 1..Len(cs) : \A j \in (i + 1)..Len(cs) :
        cs[i].delete.end <= cs[j].delete.start

SortedByKey(cs) ==
    \A i \in 1..(Len(cs) - 1) : ~KeyLess(key(cs[i + 1]), key(cs[i]))

Positions(t, i) == {p \in 1..Len(t) : t[p][1] = i}

\* Changes i and j are zero-width changes at the same offset, each with a
\* text to insert.
SamePoint(i, j) ==
    /\ pushed[i].delete.start = pushed[i].delete.end
    /\ pushed[j].delete = pushed[i].delete
    /\ pushed[i].insert # <<>>
    /\ pushed[j].insert # <<>>

\* C4: zero-width changes at one offset, finished with build(): apply puts
\* every insert text in the buffer, the earlier pushed before the later.
C4_PushOrderKept ==
    (via = "build" /\ ApplyReturned /\ InBounds(pushed, before))
        => \A i, j \in 1..Len(pushed) :
              (i < j /\ SamePoint(i, j))
                 => /\ status = "applied"
                    /\ Cardinality(Positions(text, i)) = Len(pushed[i].insert)
                    /\ Cardinality(Positions(text, j)) = Len(pushed[j].insert)
                    /\ \A p \in Positions(text, i), q \in Positions(text, j) : p < q


\* C5: iter() never fails and yields exactly the pairs inserted and not
\* removed, each once, with the range it was inserted with, in ascending
\* order of the ranges.
C5_IterYieldsLive ==
    /\ mr_last.op # "panicked"
    /\ mr_last.op = "iter" =>
          /\ Elems(mr_last.out) = mr_live
          /\ Len(mr_last.out) = Cardinality(mr_live)
          /\ \A k \in 1..(Len(mr_last.out) - 1) :
                RangeLeq(mr_last.out[k][2], mr_last.out[k + 1][2])

\* C5 witness: after a removal, iter() yields several pairs, and not in the
\* order of their slots.
C5_Witness ==
    /\ mr_last.op = "iter"
    /\ mr_removed # {}
    /\ Len(mr_last.out) >= 2
    /\ mr_last.out[1][1][1] > mr_last.out[2][1][1]

\* C6: an id remove has returned a range for stays dead: remove on it returns
\* None, iter() yields no pair with it, and no insert returns it again.
C6_RemovedStaysDead ==
    /\ (mr_last.op = "remove" /\ mr_last.stale) => ~mr_last.some
    /\ mr_last.op = "iter" =>
          \A k \in 1..Len(mr_last.out) : mr_last.out[k][1] \notin mr_removed
    /\ mr_last.op = "insert" => ~mr_last.stale

\* C6 witness: remove is called on a removed id whose slot is filled again.
C6_Witness ==
    /\ mr_last.op = "remove"
    /\ mr_last.stale
    /\ ~mr_last.some
    /\ mr_last.id[1] \in 1..Len(slotmap)
    /\ Occupied(slotmap, mr_last.id[1])


\* C7: a TextRange value got through the public API has start <= end, and
\* TextRange::new(start, end) with end < start fails.
C7_StartLeEnd ==
    /\ tr_pc = "some" => tr.start <= tr.end
    /\ (tr_call.op = "new" /\ tr_call.y < tr_call.x) => tr_pc = "panicked"

LessOrEqual == {"Less", "Equal"}

\* ra and rb overlap: each starts before the other ends.
Overlapping(a, b) == a.start < b.end /\ b.start < a.end

\* C8 as stated: ordering is reflexive, Equal exactly on overlapping ranges,
\* Less one way exactly when Greater the other way, and Less-or-Equal is
\* transitive.
C8_TotalPreorder ==
    fn_out.op = "ordering" =>
        /\ fn_out.aa = "Equal"
        /\ fn_out.ab = "Equal" <=> Overlapping(ra, rb)
        /\ fn_out.ab = "Less" <=> fn_out.ba = "Greater"
        /\ (fn_out.ab \in LessOrEqual /\ fn_out.bc \in LessOrEqual)
              => fn_out.ac \in LessOrEqual

\* C8 amended: a.ordering(a) is Equal exactly for a non-empty a; a.ordering(b)
\* is Equal exactly when each starts before the other ends; it is Less exactly
\* when b.ordering(a) is Greater, except that an empty range is Less than
\* itself; and Less-or-Equal composes when one of the two steps is Less.
C8_OrderingLaws ==
    fn_out.op = "ordering" =>
        /\ fn_out.aa = "Equal" <=> ra.start < ra.end
        /\ fn_out.ab = "Equal" <=> Overlapping(ra, rb)
        /\ \/ fn_out.ab = "Less" <=> fn_out.ba = "Greater"
           \/ ra = rb /\ ra.start = ra.end /\ fn_out.ab = "Less" /\ fn_out.ba = "Less"
        /\ ( /\ fn_out.ab \in LessOrEqual
             /\ fn_out.bc \in LessOrEqual
             /\ fn_out.ab = "Less" \/ fn_out.bc = "Less" )
              => fn_out.ac \in LessOrEqual

\* C8 witness: ra overlaps rb and rb overlaps rc, yet ra lies after rc.
C8_Witness ==
    /\ fn_out.op = "ordering"
    /\ fn_out.ab = "Equal"
    /\ fn_out.bc = "Equal"
    /\ fn_out.ac = "Greater"

\* C9: a.intersect(b) is None exactly when the greater start is past the
\* smaller end, and otherwise the range from the greater start to the smaller
\* end: the empty range at the point for ranges that only touch, None for
\* disjoint ranges that do not touch.
C9_Intersect ==
    fn_out.op = "intersect" =>
        LET s == IF ra.start >= rb.start THEN ra.start ELSE rb.start
            e == IF ra.end <= rb.end THEN ra.end ELSE rb.end
        IN  /\ fn_out.tag = "none" <=> s > e
            /\ fn_out.tag # "none" => fn_out.tag = "some" /\ fn_out.range = Range(s, e)
            /\ ra.end = rb.start
                  => fn_out.tag = "some" /\ fn_out.range = Range(ra.end, ra.end)
            /\ (ra.end < rb.start \/ rb.end < ra.start) => fn_out.tag = "none"

\* C9 witness: two non-empty ranges that only touch intersect in the empty
\* range at the point.
C9_Witness ==
    /\ fn_out.op = "intersect"
    /\ ra.start < ra.end
    /\ rb.start < rb.end
    /\ ra.end = rb.start
    /\ fn_out.tag = "some"
    /\ fn_out.range = Range(ra.end, ra.end)

\* C10: checked_add and checked_sub never panic: Some of the shifted range
\* when both shifted ends fit the offset type, None in every other case.
C10_CheckedNeverPanics ==
    /\ fn_out.op = "checked_add" =>
          IF ra.end + roff <= U32_MAX
          THEN fn_out.tag = "some"
               /\ fn_out.range = Range(ra.start + roff, ra.end + roff)
          ELSE fn_out.tag = "none"
    /\ fn_out.op = "checked_sub" =>
          IF ra.start - roff >= 0
          THEN fn_out.tag = "some"
               /\ fn_out.range = Range(ra.start - roff, ra.end - roff)
          ELSE fn_out.tag = "none"

\* The state of the tracker a caller can observe.
TrackerState == <<slotmap, sorted, should_sort, should_reset>>

\* C11: an iter() right after an iter() yields the same sequence as the
\* first one and finds both flags false; it changes neither the cached
\* ordering, nor a flag, nor the arena.
C11_IterIdempotent ==
    [][(mr_last.op = "iter" /\ mr_last'.op = "iter")
          => /\ mr_last'.out = mr_last.out
             /\ ~should_sort /\ ~should_reset
             /\ UNCHANGED TrackerState]_vars

\* C11 witness: a second iter() in a row has returned, on a tracker with a
\* removed entry and several live ones, two of them with one range.
C11_Witness ==
    /\ mr_last.op = "iter"
    /\ mr_last.after = "iter"
    /\ mr_removed # {}
    /\ \E k \in 1..(Len(mr_last.out) - 1) : mr_last.out[k][2] = mr_last.out[k + 1][2]

\* Change::apply has returned or panicked for a change applied alone.
AppliedAlone == inv_pc \in {"direct_applied", "direct_panicked"}

\* C12: Change::apply of a change whose delete span ends past the end of the
\* buffer panics, whatever the buffer and the insert text.
C12_OutOfBoundsFails ==
    (AppliedAlone /\ change.delete.end > len_chars(before))
        => inv_pc = "direct_panicked"

\* C12 witness: apply has panicked on an empty buffer for a change with an
\* empty insert text and a span past the end.
C12_Witness ==
    /\ inv_pc = "direct_panicked"
    /\ before = <<>>
    /\ change.insert = <<>>
    /\ change.delete.end > len_chars(before)

\* C13: for a change applied within the buffer, offset() is the amount by
\* which apply changes the length of the buffer, and every character after
\* the delete span is found offset() places further in the result.
C13_OffsetIsShift ==
    (AppliedAlone /\ change.delete.end <= len_chars(before))
        => /\ inv_pc = "direct_applied"
           /\ len_chars(text) = len_chars(before) + offset(change)
           /\ \A p \in (change.delete.end + 1)..Len(before) :
                 /\ p + offset(change) \in 1..Len(text)
                 /\ text[p + offset(change)] = before[p]

\* C14: iter() never fails when the cached ordering holds an id that no
\* longer resolves, whatever the flags: it returns, and yields only pairs
\* that are in the arena.
C14_IterSkipsStale ==
    /\ mr_last.op # "panicked"
    /\ mr_last.op = "iter" =>
          \A k \in 1..Len(mr_last.out) :
              /\ SlotMap_get(slotmap, mr_last.out[k][1]).some
              /\ SlotMap_get(slotmap, mr_last.out[k][1]).value = mr_last.out[k][2]

\* C15: after the other owner has replaced a range or inserted an entry,
\* an iter() that returns yields every live entry once, with the range it
\* has now, in ascending order of these ranges.
C15_IterSeesArena ==
    mr_last.op = "iter" =>
        /\ Elems(mr_last.out) = mr_live
        /\ Len(mr_last.out) = Cardinality(mr_live)
        /\ \A k \in 1..(Len(mr_last.out) - 1) :
              RangeLeq(mr_last.out[k][2], mr_last.out[k + 1][2])

\* C16: remove(id) on an id that was removed before, or that no insert ever
\* returned, returns None and changes neither the arena, nor the cached
\* ordering, nor a flag.
C16_DeadRemoveNoOp ==
    [][(mr_last'.op = "remove" /\ (mr_last'.stale \/ mr_last'.id = NeverIssued))
          => (~mr_last'.some /\ UNCHANGED TrackerState)]_vars

\* C16 witness: a second remove of an id has returned None right after an
\* iter(), on a tracker with entries left, and both flags are still false.
C16_Witness ==
    /\ mr_last.op = "remove"
    /\ mr_last.after = "iter"
    /\ mr_last.stale
    /\ ~mr_last.some
    /\ sorted # <<>>
    /\ ~should_sort
    /\ ~should_reset

\* The ids of the live entries.
LiveIds == {p[1] : p \in mr_live}

\* The cached ordering holds exactly the live ids, each once.
CacheIsLive == Elems(sorted) = LiveIds /\ Len(sorted) = Cardinality(LiveIds)

\* Every cached id resolves, and the ranges they resolve to ascend.
CacheAscending ==
    /\ \A k \in 1..Len(sorted) : SlotMap_get(slotmap, sorted[k]).some
    /\ \A k \in 1..(Len(sorted) - 1) :
          RangeLeq(SlotMap_get(slotmap, sorted[k]).value,
                   SlotMap_get(slotmap, sorted[k + 1]).value)

\* C19: with the tracker the only mutator of its arena, should_reset false
\* means the cached ordering holds exactly the live ids, should_sort false
\* means it is in ascending order of the ranges, and neither insert nor
\* remove clears a flag that is set.
C19_FlagsCoverStaleness ==
    /\ [](~should_reset => CacheIsLive)
    /\ [](~should_sort => CacheAscending)
    /\ [][mr_last'.op \in {"insert", "remove"}
            => /\ should_sort => should_sort'
               /\ should_reset => should_reset']_vars

\* C19 witness: after a removal and a read, an insert has left a cached
\* ordering that is complete but out of order, with only should_sort set.
C19_Witness ==
    /\ mr_last.op = "insert"
    /\ mr_removed # {}
    /\ should_sort
    /\ ~should_reset
    /\ CacheIsLive
    /\ ~CacheAscending

\* No two pushed changes have the same (delete.start, delete.end).
DistinctKeys ==
    \A i, j \in 1..Len(pushed) : key(pushed[i]) = key(pushed[j]) => i = j

\* cs and ds hold the same changes, each as often in one as in the other.
SameChanges(cs, ds) ==
    /\ Len(cs) = Len(ds)
    /\ \A c \in Elems(cs) \cup Elems(ds) :
          Cardinality({k \in 1..Len(cs) : cs[k] = c})
            = Cardinality({k \in 1..Len(ds) : ds[k] = c})

\* C17: build_unstable() fails exactly on the inputs build() fails on; a
\* ChangeSet it returns holds the changes of the one build() returns, and
\* where the two differ at a position, both have there a zero-length change
\* at one and the same offset; with no two changes of one key, the two are
\* the same ChangeSet and apply gives the same outcome for both.
C17_UnstableLikeStable ==
    via = "build_unstable" =>
        LET stable == check_disjoint(pushed)
            applied == ChangeSet_apply(stable.changes, before)
        IN  /\ status = "build_panicked" <=> ~stable.ok
            /\ status # "build_panicked" =>
                  /\ SameChanges(changes, stable.changes)
                  /\ \A k \in 1..Len(changes) :
                        changes[k] # stable.changes[k] =>
                            /\ key(changes[k]) = key(stable.changes[k])
                            /\ changes[k].delete.start = changes[k].delete.end
                  /\ DistinctKeys => changes = stable.changes
                  /\ (DistinctKeys /\ ApplyReturned) =>
                        /\ status = "applied" <=> applied.ok
                        /\ text = applied.text

\* C17 witness: build_unstable() has returned a ChangeSet in another order
\* than build() would have, and it has been applied.
C17_Witness ==
    /\ via = "build_unstable"
    /\ status = "applied"
    /\ changes # check_disjoint(pushed).changes
    /\ changes # pushed

\* C18: range + offset and range - offset panic whenever an endpoint would
\* leave the offset type, in every build; what they return is the range
\* with both endpoints shifted, never one with endpoints wrapped around.
C18_ShiftNeverWraps ==
    /\ fn_out.op = "add" =>
          IF ra.end + roff > U32_MAX
          THEN fn_out.tag = "panic"
          ELSE fn_out.tag = "some"
               /\ fn_out.range = Range(ra.start + roff, ra.end + roff)
    /\ fn_out.op = "sub" =>
          IF ra.start - roff < 0
          THEN fn_out.tag = "panic"
          ELSE fn_out.tag = "some"
               /\ fn_out.range = Range(ra.start - roff, ra.end - roff)

\* C20: ChangeSet::apply does not fail on changes that are sorted ascending,
\* pairwise disjoint and within the original buffer: no re-anchored span is
\* negative, reversed or past the end of the buffer of its step.
C20_SortedApplyNeverFails ==
    ( /\ ApplyReturned
      /\ SortedByKey(changes)
      /\ PairwiseDisjoint(changes)
      /\ InBounds(changes, before) )
        => status = "applied"

====
